---- MODULE Spec2Model ----
(***************************************************************************)
(* libbpf-rs, src/map.rs: OpenMap (a parsed, not yet created BPF map), Map *)
(* (a created map), MapFlags and MapType.                                  *)
(*                                                                         *)
(* The wrappers of map.rs are modelled as operators that take the state    *)
(* they act on and return the Result they produce, the state they leave    *)
(* and the foreign calls they issued.  What libbpf and the kernel do       *)
(* behind each foreign call is modelled by one operator per libbpf_sys     *)
(* function, a generic key/value store with a capacity, as the external    *)
(* interface of the map abstraction describes it.                          *)
(***************************************************************************)
EXTENDS Integers, Sequences, FiniteSets, TLC

VARIABLES
    map,      \* struct Map: fd, ty, key_size, value_size
    omap,     \* the configuration behind struct OpenMap's ptr
    phase,    \* "open" (OpenMap) or "loaded" (Map): the owning object's state
    kmap,     \* the kernel map behind Map::fd: entries and max_entries
    pins,     \* the bpffs paths that have an entry
    last,     \* the last call that returned: op, args, result, foreign calls
    calls,    \* per concurrent caller: the call it has in flight or finished
    taken     \* per key: lookup_and_delete calls that returned the entry
              \* written by the last successful update of that key

vars == <<map, omap, phase, kmap, pins, last, calls, taken>>

(***************************** bounds **************************************)
\* longest byte buffer a caller passes
MaxLen == 3
\* largest max_entries an object declares or a caller sets
MaxEntries == 2
\* largest raw map type tried below the top of the u32 range
MaxRawType == 40

Bytes == {0, 1}
\* the <<key_size, value_size>> a map is created with
Sizes == {<<1, 2>>}
\* every buffer as long as a key or a value can be, and the zero-filled ones
\* of every greater length up to MaxLen
Buffers == UNION {[1..n -> Bytes] : n \in 0..2} \cup {[i \in 1..n |-> 0] : n \in 3..MaxLen}
BuffersOfLen(n) == {b \in Buffers : Len(b) = n}
Callers == {1, 2}
Nul == "NUL"
\* bpffs paths: path strings, which hold no NUL
Paths == {<<"a">>, <<"b">>}
InnerFds == {7, 8}
IfIndexes == {0, 1}

(************************* MapFlags, errno *********************************)
ANY == 0
NO_EXIST == 1
EXIST == 2
LOCK == 4
Flags == {ANY, NO_EXIST, EXIST, LOCK}

HasBit(flags, bit) == (flags \div bit) % 2 = 1

ENOENT == 2
E2BIG == 7
EBUSY == 16
EEXIST == 17
EINVAL == 22
ENOTSUPP == 524
\* what the thread's errno may hold after a libbpf object call, which does
\* not promise to set it
ErrnoValues == {0, ENOENT}

(***************************** MapType *************************************)
\* the variants in declaration order; Unspec = 0 and each later one is one more
MapTypeVariants ==
    << "Unspec", "Hash", "Array", "ProgArray", "PerfEventArray", "PercpuHash",
       "PercpuArray", "StackTrace", "CgroupArray", "LruHash", "LruPercpuHash",
       "LpmTrie", "ArrayOfMaps", "HashOfMaps", "Devmap", "Sockmap", "Cpumap",
       "Xskmap", "Sockhash", "CgroupStorage", "ReuseportSockarray",
       "PercpuCgroupStorage", "Queue", "Stack", "SkStorage", "DevmapHash",
       "StructOps" >>

\* A u32 is the pair <<high 16 bits, low 16 bits>>: TLC's integers stop
\* short of u32::MAX.
U32(n) == <<0, n>>
U32Max == <<65535, 65535>>

\* #[repr(u32)]: the numeric value of a variant
Discriminant(v) ==
    IF v = "Unknown" THEN U32Max
    ELSE U32((CHOOSE i \in 1..Len(MapTypeVariants) : MapTypeVariants[i] = v) - 1)

AllMapTypes == {MapTypeVariants[i] : i \in 1..Len(MapTypeVariants)} \cup {"Unknown"}

\* #[derive(TryFromPrimitive)]: MapType::try_from(number)
try_from(number) ==
    IF \E v \in AllMapTypes : Discriminant(v) = number
    THEN [ok |-> TRUE, v |-> CHOOSE v \in AllMapTypes : Discriminant(v) = number]
    ELSE [ok |-> FALSE, v |-> "Unspec"]

\* a faulty variant: the Err arm hands back a variant instead of Unknown
map_type_no_fallback(m) ==
    try_from(m.ty).v

map_type(m) ==
    LET r == try_from(m.ty)
    IN IF r.ok THEN r.v ELSE "Unknown"

key_size(m) == m.key_size
value_size(m) == m.value_size
fd(m) == m.fd

(***************************** Results *************************************)
Ok == [kind |-> "Ok"]
None == [kind |-> "None"]
Some(bytes) == [kind |-> "Some", bytes |-> bytes]
InvalidInput(what, got, want) ==
    [kind |-> "InvalidInput", what |-> what, got |-> got, want |-> want]
System(code) == [kind |-> "System", code |-> code]

\* one foreign call as the wrapper sees it: the int returned and the thread's
\* errno after it; err is the errno of the rejection itself (0: none)
Ffi(fn, ret, errno, err) == [fn |-> fn, ret |-> ret, errno |-> errno, err |-> err]

NoEntries == [k \in {} |-> <<>>]
Present(km, key) == key \in DOMAIN km.entries
Full(km) == Cardinality(DOMAIN km.entries) >= km.max_entries
Put(entries, key, value) ==
    [k \in DOMAIN entries \cup {key} |-> IF k = key THEN value ELSE entries[k]]
Remove(entries, key) ==
    [k \in DOMAIN entries \ {key} |-> entries[k]]

(******************* the kernel behind the bpf(2) wrappers *****************)
\* A failed bpf(2) wrapper returns a negative int and leaves the errno of the
\* rejection in the thread's errno; a successful one returns 0.
SysFail(fn, e, km) ==
    [fn |-> fn, ret |-> -1, errno |-> e, err |-> e, out |-> <<>>, km |-> km]
SysOk(fn, out, km) ==
    [fn |-> fn, ret |-> 0, errno |-> 0, err |-> 0, out |-> out, km |-> km]

\* the map types whose kernel implementation has lookup-and-delete
SupportsLookupAndDelete(m) == map_type(m) \in {"Queue", "Stack"}

\* the values are opaque bytes with no lock field, so LOCK is rejected; a
\* lookup accepts no other flag
bpf_map_lookup_elem_flags(km, key, flags) ==
    LET fn == "bpf_map_lookup_elem_flags"
    IN IF flags # ANY THEN SysFail(fn, EINVAL, km)
       ELSE IF ~Present(km, key) THEN SysFail(fn, ENOENT, km)
       ELSE SysOk(fn, km.entries[key], km)

bpf_map_delete_elem(km, key) ==
    LET fn == "bpf_map_delete_elem"
    IN IF ~Present(km, key) THEN SysFail(fn, ENOENT, km)
       ELSE SysOk(fn, <<>>, [km EXCEPT !.entries = Remove(@, key)])

bpf_map_lookup_and_delete_elem(m, km, key) ==
    LET fn == "bpf_map_lookup_and_delete_elem"
    IN IF ~SupportsLookupAndDelete(m) THEN SysFail(fn, ENOTSUPP, km)
       ELSE IF ~Present(km, key) THEN SysFail(fn, ENOENT, km)
       ELSE SysOk(fn, km.entries[key], [km EXCEPT !.entries = Remove(@, key)])

bpf_map_update_elem(km, key, value, flags) ==
    LET fn == "bpf_map_update_elem"
    IN IF HasBit(flags, LOCK) \/ (HasBit(flags, NO_EXIST) /\ HasBit(flags, EXIST))
       THEN SysFail(fn, EINVAL, km)
       ELSE IF HasBit(flags, NO_EXIST) /\ Present(km, key) THEN SysFail(fn, EEXIST, km)
       ELSE IF HasBit(flags, EXIST) /\ ~Present(km, key) THEN SysFail(fn, ENOENT, km)
       ELSE IF ~Present(km, key) /\ Full(km) THEN SysFail(fn, E2BIG, km)
       ELSE SysOk(fn, <<>>, [km EXCEPT !.entries = Put(@, key, value)])

(******************* libbpf behind the bpf_map__ calls *********************)
\* A bpf_map__ call returns the negated errno of its rejection; what the
\* thread's errno holds afterwards (e) is not specified.
LibFail(fn, code, e) == [fn |-> fn, ret |-> -code, errno |-> e, err |-> code]
LibOk(fn, e) == [fn |-> fn, ret |-> 0, errno |-> e, err |-> 0]

bpf_map__pin(ps, cpath, e) ==
    IF cpath \in ps
    THEN [ffi |-> LibFail("bpf_map__pin", EEXIST, e), pins |-> ps]
    ELSE [ffi |-> LibOk("bpf_map__pin", e), pins |-> ps \cup {cpath}]

bpf_map__unpin(ps, cpath, e) ==
    IF cpath \notin ps
    THEN [ffi |-> LibFail("bpf_map__unpin", ENOENT, e), pins |-> ps]
    ELSE [ffi |-> LibOk("bpf_map__unpin", e), pins |-> ps \ {cpath}]

\* the initial value is accepted for an array map not yet created, and only
\* at the map's value size
bpf_map__set_initial_value(om, ph, m, data, e) ==
    IF ph = "loaded" \/ Len(data) # m.value_size \/ map_type(m) # "Array"
    THEN [ffi |-> LibFail("bpf_map__set_initial_value", EINVAL, e), omap |-> om]
    ELSE [ffi |-> LibOk("bpf_map__set_initial_value", e),
          omap |-> [om EXCEPT !.has_initial = TRUE, !.initial_value = data]]

bpf_map__set_max_entries(om, ph, count, e) ==
    IF ph = "loaded"
    THEN [ffi |-> LibFail("bpf_map__set_max_entries", EBUSY, e), omap |-> om]
    ELSE [ffi |-> LibOk("bpf_map__set_max_entries", e),
          omap |-> [om EXCEPT !.max_entries = count]]

\* util::path_to_cstring: a path with an interior NUL has no C string
path_to_cstring(path) ==
    IF \E i \in 1..Len(path) : path[i] = Nul
    THEN [ok |-> FALSE, err |-> InvalidInput("path", Len(path), 0)]
    ELSE [ok |-> TRUE, c |-> path]

(***************************** OpenMap *************************************)
set_map_ifindex(om, idx) == [om EXCEPT !.ifindex = idx]

set_initial_value(om, ph, m, data, e) ==
    LET r == bpf_map__set_initial_value(om, ph, m, data, e)
    IN [result |-> IF r.ffi.ret # 0 THEN System(-r.ffi.ret) ELSE Ok,
        omap |-> r.omap, ffi |-> <<r.ffi>>]

set_max_entries(om, ph, count, e) ==
    LET r == bpf_map__set_max_entries(om, ph, count, e)
    IN [result |-> IF r.ffi.ret # 0 THEN System(-r.ffi.ret) ELSE Ok,
        omap |-> r.omap, ffi |-> <<r.ffi>>]

set_inner_map_fd(om, inner) == [om EXCEPT !.inner_map_fd = fd(inner)]

(******************************* Map ***************************************)
\* a faulty variant: the return code is reported without the sign flip
pin_no_flip(ps, path, e) ==
    LET path_c == path_to_cstring(path)
    IN IF ~path_c.ok THEN [result |-> path_c.err, pins |-> ps, ffi |-> <<>>]
       ELSE LET r == bpf_map__pin(ps, path_c.c, e)
            IN [result |-> IF r.ffi.ret # 0 THEN System(r.ffi.ret) ELSE Ok,
                pins |-> r.pins, ffi |-> <<r.ffi>>]

\* a faulty variant: the return code of bpf_map__pin is not looked at
pin_ignores_ret(ps, path, e) ==
    LET path_c == path_to_cstring(path)
    IN IF ~path_c.ok THEN [result |-> path_c.err, pins |-> ps, ffi |-> <<>>]
       ELSE LET r == bpf_map__pin(ps, path_c.c, e)
            IN [result |-> Ok, pins |-> r.pins, ffi |-> <<r.ffi>>]

pin(ps, path, e) ==
    LET path_c == path_to_cstring(path)
    IN IF ~path_c.ok THEN [result |-> path_c.err, pins |-> ps, ffi |-> <<>>]
       ELSE LET r == bpf_map__pin(ps, path_c.c, e)
            IN [result |-> IF r.ffi.ret # 0 THEN System(-r.ffi.ret) ELSE Ok,
                pins |-> r.pins, ffi |-> <<r.ffi>>]

unpin(ps, path, e) ==
    LET path_c == path_to_cstring(path)
    IN IF ~path_c.ok THEN [result |-> path_c.err, pins |-> ps, ffi |-> <<>>]
       ELSE LET r == bpf_map__unpin(ps, path_c.c, e)
            IN [result |-> IF r.ffi.ret # 0 THEN System(-r.ffi.ret) ELSE Ok,
                pins |-> r.pins, ffi |-> <<r.ffi>>]

\* memory of a Vec::with_capacity buffer the kernel did not write
Uninit == -1

\* a faulty variant: set_len is forgotten and the Vec stays empty
set_len_forgotten(out, n) == <<>>

\* out.set_len(n) over what the kernel wrote into out
set_len(out, n) == [i \in 1..n |-> IF i <= Len(out) THEN out[i] ELSE Uninit]

FfiOf(o) == Ffi(o.fn, o.ret, o.errno, o.err)

\* a faulty variant: ENOENT is reported like every other errno
lookup_enoent_is_error(m, km, key, flags) ==
    IF Len(key) # key_size(m)
    THEN [result |-> InvalidInput("key_size", Len(key), key_size(m)),
          km |-> km, ffi |-> <<>>]
    ELSE LET o == bpf_map_lookup_elem_flags(km, key, flags)
         IN [result |-> IF o.ret = 0 THEN Some(set_len(o.out, value_size(m)))
                        ELSE System(o.errno),
             km |-> o.km, ffi |-> <<FfiOf(o)>>]

lookup(m, km, key, flags) ==
    IF Len(key) # key_size(m)
    THEN [result |-> InvalidInput("key_size", Len(key), key_size(m)),
          km |-> km, ffi |-> <<>>]
    ELSE LET o == bpf_map_lookup_elem_flags(km, key, flags)
         IN [result |-> IF o.ret = 0 THEN Some(set_len(o.out, value_size(m)))
                        ELSE IF o.errno = ENOENT THEN None
                        ELSE System(o.errno),
             km |-> o.km, ffi |-> <<FfiOf(o)>>]

\* a faulty variant: deleting an absent key is taken for a success, as in lookup
delete_enoent_is_ok(m, km, key) ==
    IF Len(key) # key_size(m)
    THEN [result |-> InvalidInput("key_size", Len(key), key_size(m)),
          km |-> km, ffi |-> <<>>]
    ELSE LET o == bpf_map_delete_elem(km, key)
         IN [result |-> IF o.ret = 0 \/ o.errno = ENOENT THEN Ok ELSE System(o.errno),
             km |-> o.km, ffi |-> <<FfiOf(o)>>]

\* a faulty variant: the test of the return code is inverted
delete_inverted(m, km, key) ==
    IF Len(key) # key_size(m)
    THEN [result |-> InvalidInput("key_size", Len(key), key_size(m)),
          km |-> km, ffi |-> <<>>]
    ELSE LET o == bpf_map_delete_elem(km, key)
         IN [result |-> IF o.ret # 0 THEN Ok ELSE System(o.errno),
             km |-> o.km, ffi |-> <<FfiOf(o)>>]

delete(m, km, key) ==
    IF Len(key) # key_size(m)
    THEN [result |-> InvalidInput("key_size", Len(key), key_size(m)),
          km |-> km, ffi |-> <<>>]
    ELSE LET o == bpf_map_delete_elem(km, key)
         IN [result |-> IF o.ret = 0 THEN Ok ELSE System(o.errno),
             km |-> o.km, ffi |-> <<FfiOf(o)>>]

\* a faulty variant: the lookup call is issued in place of the lookup-and-delete call
lookup_and_delete_peeks(m, km, key) ==
    IF Len(key) # key_size(m)
    THEN [result |-> InvalidInput("key_size", Len(key), key_size(m)),
          km |-> km, ffi |-> <<>>]
    ELSE LET o == bpf_map_lookup_elem_flags(km, key, ANY)
         IN [result |-> IF o.ret = 0 THEN Some(set_len(o.out, value_size(m)))
                        ELSE IF o.errno = ENOENT THEN None
                        ELSE System(o.errno),
             km |-> o.km, ffi |-> <<FfiOf(o)>>]

lookup_and_delete(m, km, key) ==
    IF Len(key) # key_size(m)
    THEN [result |-> InvalidInput("key_size", Len(key), key_size(m)),
          km |-> km, ffi |-> <<>>]
    ELSE LET o == bpf_map_lookup_and_delete_elem(m, km, key)
         IN [result |-> IF o.ret = 0 THEN Some(set_len(o.out, value_size(m)))
                        ELSE IF o.errno = ENOENT THEN None
                        ELSE System(o.errno),
             km |-> o.km, ffi |-> <<FfiOf(o)>>]

\* a faulty variant: the length of the value is not checked
update_no_value_check(m, km, key, value, flags) ==
    IF Len(key) # key_size(m)
    THEN [result |-> InvalidInput("key_size", Len(key), key_size(m)),
          km |-> km, ffi |-> <<>>]
    ELSE LET o == bpf_map_update_elem(km, key, value, flags)
         IN [result |-> IF o.ret = 0 THEN Ok ELSE System(o.errno),
             km |-> o.km, ffi |-> <<FfiOf(o)>>]

\* a faulty variant: the flags are not passed on
update_drops_flags(m, km, key, value, flags) ==
    IF Len(key) # key_size(m)
    THEN [result |-> InvalidInput("key_size", Len(key), key_size(m)),
          km |-> km, ffi |-> <<>>]
    ELSE IF Len(value) # value_size(m)
    THEN [result |-> InvalidInput("value_size", Len(value), value_size(m)),
          km |-> km, ffi |-> <<>>]
    ELSE LET o == bpf_map_update_elem(km, key, value, ANY)
         IN [result |-> IF o.ret = 0 THEN Ok ELSE System(o.errno),
             km |-> o.km, ffi |-> <<FfiOf(o)>>]

update(m, km, key, value, flags) ==
    IF Len(key) # key_size(m)
    THEN [result |-> InvalidInput("key_size", Len(key), key_size(m)),
          km |-> km, ffi |-> <<>>]
    ELSE IF Len(value) # value_size(m)
    THEN [result |-> InvalidInput("value_size", Len(value), value_size(m)),
          km |-> km, ffi |-> <<>>]
    ELSE LET o == bpf_map_update_elem(km, key, value, flags)
         IN [result |-> IF o.ret = 0 THEN Ok ELSE System(o.errno),
             km |-> o.km, ffi |-> <<FfiOf(o)>>]

(************************ calls and their records **************************)
NoArgs == [none |-> TRUE]
NoCall == [op |-> "none", args |-> NoArgs, result |-> [kind |-> "none"], ffi |-> <<>>]
Call(op, args, r) == [op |-> op, args |-> args, result |-> r.result, ffi |-> r.ffi]

BPF_MAP_TYPE_HASH == Discriminant("Hash")
BPF_MAP_TYPE_ARRAY == Discriminant("Array")
BPF_MAP_TYPE_QUEUE == Discriminant("Queue")
MapFd == 3

NewOpenMap == [ifindex |-> 0, has_initial |-> FALSE, initial_value |-> <<>>,
               max_entries |-> 1, inner_map_fd |-> -1]
\* Map::new
NewMap(f, ty, ks, vs) == [fd |-> f, ty |-> ty, key_size |-> ks, value_size |-> vs]
NewKmap(n) == [entries |-> NoEntries, max_entries |-> n]
NoCalls == [c \in Callers |-> [pc |-> "idle", call |-> NoCall]]
NoneTaken == [k \in {} |-> 0]

(***************** the operations on a created Map *************************)
Lookup(key, flags) ==
    LET r == lookup(map, kmap, key, flags)
    IN /\ phase = "loaded"
       /\ kmap' = r.km
       /\ last' = Call("lookup", [key |-> key, flags |-> flags], r)
       /\ UNCHANGED <<map, omap, phase, pins, calls, taken>>

Delete(key) ==
    LET r == delete(map, kmap, key)
    IN /\ phase = "loaded"
       /\ kmap' = r.km
       /\ last' = Call("delete", [key |-> key], r)
       /\ UNCHANGED <<map, omap, phase, pins, calls, taken>>

LookupAndDelete(key) ==
    LET r == lookup_and_delete(map, kmap, key)
    IN /\ phase = "loaded"
       /\ kmap' = r.km
       /\ last' = Call("lookup_and_delete", [key |-> key], r)
       /\ UNCHANGED <<map, omap, phase, pins, calls, taken>>

Update(key, value, flags) ==
    LET r == update(map, kmap, key, value, flags)
    IN /\ phase = "loaded"
       /\ kmap' = r.km
       /\ last' = Call("update", [key |-> key, value |-> value, flags |-> flags], r)
       /\ UNCHANGED <<map, omap, phase, pins, calls, taken>>

(***************************************************************************)
(* SpecMap: one caller of lookup, delete, lookup_and_delete and update on  *)
(* a created map, with buffers of every length up to MaxLen.               *)
(***************************************************************************)
InitMap ==
    /\ \E s \in Sizes, ty \in {BPF_MAP_TYPE_HASH, BPF_MAP_TYPE_QUEUE} :
          map = NewMap(MapFd, ty, s[1], s[2])
    /\ omap = NewOpenMap
    /\ phase = "loaded"
    /\ \E n \in 1..MaxEntries : kmap = NewKmap(n)
    /\ pins = {}
    /\ last = NoCall
    /\ calls = NoCalls
    /\ taken = NoneTaken

NextMap ==
    \/ \E key \in Buffers, flags \in Flags : Lookup(key, flags)
    \/ \E key \in Buffers : Delete(key)
    \/ \E key \in Buffers : LookupAndDelete(key)
    \/ \E key \in Buffers, value \in Buffers, flags \in Flags : Update(key, value, flags)

SpecMap == InitMap /\ [][NextMap]_vars

(***************** the operations on an OpenMap, and load ******************)
SetMapIfindex(idx) ==
    /\ omap' = set_map_ifindex(omap, idx)
    /\ last' = Call("set_map_ifindex", [idx |-> idx], [result |-> Ok, ffi |-> <<>>])
    /\ UNCHANGED <<map, phase, kmap, pins, calls, taken>>

SetInitialValue(data, e) ==
    LET r == set_initial_value(omap, phase, map, data, e)
    IN /\ omap' = r.omap
       /\ last' = Call("set_initial_value", [data |-> data], r)
       /\ UNCHANGED <<map, phase, kmap, pins, calls, taken>>

SetMaxEntries(count, e) ==
    LET r == set_max_entries(omap, phase, count, e)
    IN /\ omap' = r.omap
       /\ last' = Call("set_max_entries", [count |-> count], r)
       /\ UNCHANGED <<map, phase, kmap, pins, calls, taken>>

SetInnerMapFd(inner) ==
    /\ omap' = set_inner_map_fd(omap, inner)
    /\ last' = Call("set_inner_map_fd", [inner |-> inner.fd], [result |-> Ok, ffi |-> <<>>])
    /\ UNCHANGED <<map, phase, kmap, pins, calls, taken>>

ZeroKey(m) == [i \in 1..m.key_size |-> 0]

\* The owning object is loaded: the kernel creates the map as configured, an
\* initial value becoming the value of the zero key.  A map of no entries is
\* not created.
Load ==
    /\ phase = "open"
    /\ omap.max_entries >= 1
    /\ phase' = "loaded"
    /\ kmap' = [entries |-> IF omap.has_initial
                            THEN Put(NoEntries, ZeroKey(map), omap.initial_value)
                            ELSE NoEntries,
                max_entries |-> omap.max_entries]
    /\ UNCHANGED <<map, omap, pins, last, calls, taken>>

Pin(path, e) ==
    LET r == pin(pins, path, e)
    IN /\ phase = "loaded"
       /\ pins' = r.pins
       /\ last' = Call("pin", [path |-> path], r)
       /\ UNCHANGED <<map, omap, phase, kmap, calls, taken>>

Unpin(path, e) ==
    LET r == unpin(pins, path, e)
    IN /\ phase = "loaded"
       /\ pins' = r.pins
       /\ last' = Call("unpin", [path |-> path], r)
       /\ UNCHANGED <<map, omap, phase, kmap, calls, taken>>

(***************************************************************************)
(* Spec: an OpenMap is configured, its object is loaded, and the Map is    *)
(* pinned, unpinned, read and written by one caller with buffers of the    *)
(* map's sizes.                                                            *)
(***************************************************************************)
Keys == BuffersOfLen(map.key_size)
Values == BuffersOfLen(map.value_size)
\* the values the one-caller and the concurrent specification write
FewValues == {[i \in 1..map.value_size |-> b] : b \in Bytes}

Init ==
    /\ \E s \in Sizes, ty \in {BPF_MAP_TYPE_ARRAY, BPF_MAP_TYPE_QUEUE} :
          map = NewMap(MapFd, ty, s[1], s[2])
    /\ omap = NewOpenMap
    /\ phase = "open"
    /\ kmap = NewKmap(0)
    /\ pins = {}
    /\ last = NoCall
    /\ calls = NoCalls
    /\ taken = NoneTaken

Next ==
    \/ \E idx \in IfIndexes : SetMapIfindex(idx)
    \/ \E data \in FewValues \cup BuffersOfLen(1), e \in ErrnoValues : SetInitialValue(data, e)
    \/ \E count \in 0..MaxEntries, e \in ErrnoValues : SetMaxEntries(count, e)
    \/ \E f \in InnerFds : SetInnerMapFd(NewMap(f, BPF_MAP_TYPE_HASH, 1, 1))
    \/ Load
    \/ \E path \in Paths, e \in ErrnoValues : Pin(path, e)
    \/ \E path \in Paths, e \in ErrnoValues : Unpin(path, e)
    \/ \E key \in Keys, flags \in Flags : Lookup(key, flags)
    \/ \E key \in Keys : Delete(key)
    \/ \E key \in Keys : LookupAndDelete(key)
    \/ \E key \in Keys, value \in FewValues, flags \in Flags : Update(key, value, flags)

Spec == Init /\ [][Next]_vars

(***************************************************************************)
(* SpecConc: two callers of one kernel map.  A call is entered, and later  *)
(* runs: the wrapper's one foreign call is the only step of it that        *)
(* touches the kernel map, so the call takes effect there at once.         *)
(***************************************************************************)
Run(op, args, m, km) ==
    CASE op = "lookup" -> lookup(m, km, args.key, args.flags)
      [] op = "delete" -> delete(m, km, args.key)
      [] op = "lookup_and_delete" -> lookup_and_delete(m, km, args.key)
      [] op = "update" -> update(m, km, args.key, args.value, args.flags)

TakenOf(t, key) == IF key \in DOMAIN t THEN t[key] ELSE 0

Invoke(c, op, args) ==
    /\ calls[c].pc # "called"
    /\ calls' = [calls EXCEPT ![c] =
                    [pc |-> "called",
                     call |-> [op |-> op, args |-> args,
                               result |-> [kind |-> "pending"], ffi |-> <<>>]]]
    /\ UNCHANGED <<map, omap, phase, kmap, pins, last, taken>>

Complete(c) ==
    /\ calls[c].pc = "called"
    /\ LET cl == calls[c].call
           r == Run(cl.op, cl.args, map, kmap)
       IN /\ kmap' = r.km
          /\ calls' = [calls EXCEPT ![c] = [pc |-> "done", call |-> Call(cl.op, cl.args, r)]]
          /\ taken' = IF cl.op = "update" /\ r.result.kind = "Ok"
                      THEN Put(taken, cl.args.key, 0)
                      ELSE IF cl.op = "lookup_and_delete" /\ r.result.kind = "Some"
                      THEN Put(taken, cl.args.key,
                               IF TakenOf(taken, cl.args.key) >= 1 THEN 2 ELSE 1)
                      ELSE taken
    /\ UNCHANGED <<map, omap, phase, pins, last>>

InitConc ==
    /\ \E s \in Sizes, ty \in {BPF_MAP_TYPE_HASH, BPF_MAP_TYPE_QUEUE} :
          map = NewMap(MapFd, ty, s[1], s[2])
    /\ omap = NewOpenMap
    /\ phase = "loaded"
    /\ \E n \in 1..MaxEntries : kmap = NewKmap(n)
    /\ pins = {}
    /\ last = NoCall
    /\ calls = NoCalls
    /\ taken = NoneTaken

NextConc ==
    \/ \E c \in Callers, key \in Keys : Invoke(c, "lookup", [key |-> key, flags |-> ANY])
    \/ \E c \in Callers, key \in Keys : Invoke(c, "delete", [key |-> key])
    \/ \E c \in Callers, key \in Keys : Invoke(c, "lookup_and_delete", [key |-> key])
    \/ \E c \in Callers, key \in Keys, value \in FewValues :
          Invoke(c, "update", [key |-> key, value |-> value, flags |-> ANY])
    \/ \E c \in Callers : Complete(c)

SpecConc == InitConc /\ [][NextConc]_vars

(***************************************************************************)
(* SpecType: the accessors of a Map created with any raw kernel type.      *)
(***************************************************************************)
RawTypes ==
    {U32(n) : n \in 0..MaxRawType}
        \cup {<<h, n>> : h \in {1, 65535}, n \in {0, 1, 22, 65534, 65535}}

Value(v) == [kind |-> "Value", v |-> v]

MapTypeCall ==
    /\ last' = Call("map_type", NoArgs, [result |-> Value(map_type(map)), ffi |-> <<>>])
    /\ UNCHANGED <<map, omap, phase, kmap, pins, calls, taken>>

KeySizeCall ==
    /\ last' = Call("key_size", NoArgs, [result |-> Value(key_size(map)), ffi |-> <<>>])
    /\ UNCHANGED <<map, omap, phase, kmap, pins, calls, taken>>

ValueSizeCall ==
    /\ last' = Call("value_size", NoArgs, [result |-> Value(value_size(map)), ffi |-> <<>>])
    /\ UNCHANGED <<map, omap, phase, kmap, pins, calls, taken>>

FdCall ==
    /\ last' = Call("fd", NoArgs, [result |-> Value(fd(map)), ffi |-> <<>>])
    /\ UNCHANGED <<map, omap, phase, kmap, pins, calls, taken>>

InitType ==
    /\ \E s \in Sizes, ty \in RawTypes : map = NewMap(MapFd, ty, s[1], s[2])
    /\ omap = NewOpenMap
    /\ phase = "loaded"
    /\ kmap = NewKmap(1)
    /\ pins = {}
    /\ last = NoCall
    /\ calls = NoCalls
    /\ taken = NoneTaken

NextType == MapTypeCall \/ KeySizeCall \/ ValueSizeCall \/ FdCall

SpecType == InitType /\ [][NextType]_vars

(***************************************************************************)
(* The properties.  A step of SpecMap or Spec that makes a call leaves the *)
(* call in last', so a formula over last' and the unprimed kernel state    *)
(* speaks of a call and of the state it was made in.                       *)
(***************************************************************************)
IsCrud(c) == c.op \in {"lookup", "delete", "lookup_and_delete", "update"}
KeyOk(c) == Len(c.args.key) = map.key_size
ValueOk(c) == c.op # "update" \/ Len(c.args.value) = map.value_size
IsUpdate(c, flags) ==
    c.op = "update" /\ KeyOk(c) /\ ValueOk(c) /\ c.args.flags = flags
IsLookupAny(c) == c.op = "lookup" /\ KeyOk(c) /\ c.args.flags = ANY
Failed(c) == c.result.kind \in {"System", "InvalidInput"}

\* C1: a lookup, delete, lookup_and_delete or update whose key is not key_size
\* long, or an update whose value is not value_size long, returns InvalidInput,
\* issues no foreign call and leaves the kernel map as it was.
C1_Step ==
    LET c == last'
    IN (IsCrud(c) /\ (~KeyOk(c) \/ ~ValueOk(c)))
          => /\ c.result.kind = "InvalidInput"
             /\ c.ffi = <<>>
             /\ kmap' = kmap
C1_WrongSizeIsInvalidInput == [][C1_Step]_vars

\* an update with a good key and a value of the wrong length was refused while
\* the key is in the map
C1_Witness ==
    /\ last.op = "update" /\ KeyOk(last) /\ ~ValueOk(last)
    /\ last.result.kind = "InvalidInput"
    /\ Present(kmap, last.args.key)

\* the second half of C2: a lookup(k, ANY) made right after update(k, v, ANY)
\* returned Ok gives Some(v), value_size bytes long
C2_ReadBack ==
    (IsUpdate(last, ANY) /\ last.result = Ok /\ IsLookupAny(last')
        /\ last'.args.key = last.args.key)
       => /\ last'.result = Some(last.args.value)
          /\ Len(last'.result.bytes) = map.value_size

\* C2 as claimed: update(k, v, ANY) with buffers of the map's sizes succeeds in
\* every state of the map, and the lookup(k, ANY) made next returns Some(v).
C2_Original_Step ==
    /\ IsUpdate(last', ANY) => last'.result = Ok
    /\ C2_ReadBack
C2_Original == [][C2_Original_Step]_vars

\* C2 as amended: update(k, v, ANY) succeeds when k is in the map or the map
\* holds fewer than max_entries entries, and fails with System(E2BIG), the map
\* unchanged, when k is absent and the map is full; after a success the
\* lookup(k, ANY) made next returns Some(v), value_size bytes long.
C2_Amended_Step ==
    /\ IsUpdate(last', ANY) =>
          LET k == last'.args.key
          IN IF Present(kmap, k) \/ ~Full(kmap)
             THEN last'.result = Ok /\ Present(kmap', k)
                  /\ kmap'.entries[k] = last'.args.value
             ELSE last'.result = System(E2BIG) /\ kmap' = kmap
    /\ C2_ReadBack
C2_UpdateThenLookup == [][C2_Amended_Step]_vars

\* a lookup read a value back from a map that is full
C2_Witness ==
    /\ IsLookupAny(last) /\ Full(kmap)
    /\ Present(kmap, last.args.key)
    /\ last.result = Some(kmap.entries[last.args.key])

\* C3: lookup(k, ANY) of a key of the right length that is not in the map
\* returns None; a lookup the kernel fails with another errno than ENOENT
\* returns System of that errno.
C3_LookupAbsentIsNone ==
    (last.op = "lookup" /\ KeyOk(last)) =>
       /\ Len(last.ffi) = 1
       /\ (last.args.flags = ANY /\ ~Present(kmap, last.args.key))
             => last.result = None
       /\ (last.ffi[1].ret # 0 /\ last.ffi[1].err # ENOENT)
             => last.result = System(last.ffi[1].err)

\* a lookup of an absent key returned None while another key is in the map
C3_Witness ==
    /\ IsLookupAny(last) /\ last.result = None
    /\ DOMAIN kmap.entries # {}

\* what C4 says of EXIST, and of a failed update
C4_Rest ==
    /\ IsUpdate(last', EXIST) =>
          IF Present(kmap, last'.args.key)
          THEN last'.result = Ok /\ kmap'.entries[last'.args.key] = last'.args.value
          ELSE last'.result.kind = "System" /\ kmap' = kmap
    /\ (IsUpdate(last', NO_EXIST) /\ Present(kmap, last'.args.key))
          => last'.result.kind = "System" /\ kmap' = kmap
    /\ (last'.op = "update" /\ Failed(last')) => kmap' = kmap

\* C4 as claimed: update(k, v, NO_EXIST) fails when k is in the map and
\* succeeds when it is not; update(k, v, EXIST) fails when k is not in the map
\* and succeeds when it is; a failed update leaves the map as it was.
C4_Original_Step ==
    /\ (IsUpdate(last', NO_EXIST) /\ ~Present(kmap, last'.args.key))
          => last'.result = Ok
    /\ C4_Rest
C4_Original == [][C4_Original_Step]_vars

\* C4 as amended: update(k, v, NO_EXIST) of an absent key succeeds when the map
\* holds fewer than max_entries entries and fails with System(E2BIG) when it
\* is full; the rest as claimed.
C4_Amended_Step ==
    /\ (IsUpdate(last', NO_EXIST) /\ ~Present(kmap, last'.args.key)) =>
          IF Full(kmap)
          THEN last'.result = System(E2BIG)
          ELSE last'.result = Ok
               /\ kmap'.entries[last'.args.key] = last'.args.value
    /\ C4_Rest
C4_ExistenceFlags == [][C4_Amended_Step]_vars

\* an update with NO_EXIST was refused and the key keeps another value
C4_Witness ==
    /\ IsUpdate(last, NO_EXIST) /\ last.result = System(EEXIST)
    /\ Present(kmap, last.args.key)
    /\ kmap.entries[last.args.key] # last.args.value

\* C5: delete(k) made after update(k, v, ANY) succeeded returns Ok and takes
\* the entry away, and a lookup(k, ANY) made after that delete returns None.
C5_Step ==
    /\ (IsUpdate(last, ANY) /\ last.result = Ok
           /\ last'.op = "delete" /\ last'.args.key = last.args.key)
          => last'.result = Ok
    /\ (last'.op = "delete" /\ KeyOk(last') /\ Present(kmap, last'.args.key))
          => last'.result = Ok /\ ~Present(kmap', last'.args.key)
    /\ (last.op = "delete" /\ last.result = Ok
           /\ IsLookupAny(last') /\ last'.args.key = last.args.key)
          => last'.result = None
C5_DeleteAfterUpdate == [][C5_Step]_vars

\* a delete returned Ok and its key is gone while another key stays
C5_Witness ==
    /\ last.op = "delete" /\ last.result = Ok
    /\ ~Present(kmap, last.args.key)
    /\ DOMAIN kmap.entries # {}

\* C6: delete(k) of a key of the right length that is not in the map returns
\* System(ENOENT); ENOENT becomes None in lookup and lookup_and_delete, and
\* stays an error in delete and update.
C6_Step ==
    LET c == last'
    IN /\ (c.op = "delete" /\ KeyOk(c) /\ ~Present(kmap, c.args.key))
             => c.result = System(ENOENT) /\ kmap' = kmap
       /\ (c.op \in {"delete", "update"} /\ c.ffi # <<>> /\ c.ffi[1].err = ENOENT)
             => c.result = System(ENOENT)
       /\ (c.op \in {"lookup", "lookup_and_delete"} /\ c.ffi # <<>>
              /\ c.ffi[1].err = ENOENT)
             => c.result = None
       /\ c.result.kind = "None" => c.op \in {"lookup", "lookup_and_delete"}
C6_DeleteAbsentIsError == [][C6_Step]_vars

\* a delete of an absent key returned System(ENOENT)
C6_Witness ==
    /\ last.op = "delete" /\ last.result = System(ENOENT)
    /\ DOMAIN kmap.entries # {}

\* a caller's lookup_and_delete runs in this step
Completing(c) ==
    /\ calls[c].pc = "called" /\ calls'[c].pc = "done"
    /\ calls'[c].call.op = "lookup_and_delete"

\* what C7 says of a lookup_and_delete that returns Some, and of two callers
C7_Rest ==
    /\ \A c \in Callers :
          (Completing(c) /\ calls'[c].call.result.kind = "Some") =>
             LET k == calls'[c].call.args.key
             IN /\ Present(kmap, k)
                /\ calls'[c].call.result.bytes = kmap.entries[k]
                /\ ~Present(kmap', k)
    /\ \A k \in DOMAIN taken' : taken'[k] <= 1

\* C7 as claimed: lookup_and_delete(k) that returns Some(v) returns the value
\* stored under k and leaves no entry for k, in one step of the kernel map; for
\* an absent k it returns None; of the calls that race for one stored entry
\* at most one returns Some.
C7_Original_Step ==
    /\ \A c \in Callers :
          (Completing(c) /\ ~Present(kmap, calls'[c].call.args.key))
             => calls'[c].call.result = None
    /\ C7_Rest
C7_Original == [][C7_Original_Step]_vars

\* C7 as amended: for an absent k it returns None on a map whose type has the
\* operation in the kernel (Queue, Stack) and the kernel's System error on
\* every other type; the rest as claimed.
C7_Amended_Step ==
    /\ \A c \in Callers :
          (Completing(c) /\ ~Present(kmap, calls'[c].call.args.key)) =>
             /\ kmap' = kmap
             /\ IF SupportsLookupAndDelete(map)
                THEN calls'[c].call.result = None
                ELSE calls'[c].call.result.kind = "System"
    /\ C7_Rest
C7_AtomicLookupAndDelete == [][C7_Amended_Step]_vars

\* two callers asked for the same entry: one got it, the other got None
C7_Witness ==
    /\ calls[1].pc = "done" /\ calls[1].call.op = "lookup_and_delete"
    /\ calls[2].pc = "done" /\ calls[2].call.op = "lookup_and_delete"
    /\ calls[1].call.args.key = calls[2].call.args.key
    /\ calls[1].call.result = None
    /\ calls[2].call.result.kind = "Some"
    /\ TakenOf(taken, calls[2].call.args.key) = 1

\* C8: pin(path) succeeds when the path has no entry and fails with a System
\* error when it has one; unpin(path) succeeds when the path has an entry and
\* fails with a System error when it has none; so pin, unpin, pin succeed and
\* the second of pin, pin fails.
C8_Step ==
    LET c == last'
    IN /\ c.op = "pin" =>
             IF c.args.path \in pins
             THEN c.result.kind = "System" /\ pins' = pins
             ELSE c.result = Ok /\ pins' = pins \cup {c.args.path}
       /\ c.op = "unpin" =>
             IF c.args.path \in pins
             THEN c.result = Ok /\ pins' = pins \ {c.args.path}
             ELSE c.result.kind = "System" /\ pins' = pins
       /\ (last.op = "pin" /\ last.result = Ok /\ c.op = "pin"
              /\ c.args.path = last.args.path)
             => c.result.kind = "System"
       /\ (last.op = "unpin" /\ last.result = Ok /\ c.op = "pin"
              /\ c.args.path = last.args.path)
             => c.result = Ok
RejectingOps ==
    {"set_initial_value", "set_max_entries", "pin", "unpin",
     "lookup", "delete", "lookup_and_delete", "update"}

\* C9: a System error carries the errno of the rejection, a positive number:
\* whenever libbpf or the kernel rejects a set_initial_value, set_max_entries,
\* pin, unpin, lookup, delete, lookup_and_delete or update (an absent key of a
\* lookup or lookup_and_delete aside), the call returns System of that errno.
C9_SystemCarriesErrno ==
    /\ last.result.kind = "System" =>
          /\ last.op \in RejectingOps
          /\ Len(last.ffi) = 1
          /\ last.result.code > 0
          /\ last.result.code = last.ffi[1].err
    /\ (last.op \in RejectingOps /\ last.ffi # <<>> /\ last.ffi[1].ret # 0
           /\ ~(last.op \in {"lookup", "lookup_and_delete"}
                 /\ last.ffi[1].err = ENOENT))
          => last.result = System(last.ffi[1].err)

\* a pin was refused with EEXIST while the thread's errno held something else
C9_Witness ==
    /\ last.op = "pin" /\ last.result = System(EEXIST)
    /\ last.ffi[1].ret = -EEXIST
    /\ last.ffi[1].errno # EEXIST

KnownIds == {U32(n) : n \in 0..(Len(MapTypeVariants) - 1)}

\* C10: map_type() of any raw u32 type is the variant with that number when
\* the number is one of 0 .. 26 and Unknown otherwise; Unknown's own number,
\* u32::MAX, is the number of no kernel variant.
C10_MapTypeTotal ==
    /\ last.op = "map_type" =>
          LET v == last.result.v
          IN /\ v \in AllMapTypes
             /\ IF map.ty \in KnownIds
                THEN v = MapTypeVariants[map.ty[2] + 1] /\ Discriminant(v) = map.ty
                ELSE v = "Unknown"
             /\ map.ty = U32(0) => v = "Unspec"
             /\ map.ty = U32(1) => v = "Hash"
             /\ map.ty = U32(22) => v = "Queue"
             /\ map.ty = U32(26) => v = "StructOps"
    /\ Discriminant("Unknown") = U32Max
    /\ U32Max \notin KnownIds

\* a raw type above the u16 range whose low half is Queue's number is Unknown
C10_Witness ==
    /\ last.op = "map_type"
    /\ map.ty = <<1, 22>>
    /\ last.result.v = "Unknown"
====
